---- MODULE Spec2Model ----
(***************************************************************************)
(* State-machine model of the nginx configuration generator               *)
(* (src/config.py) and of its driver script (src/main.py).                 *)
(*                                                                         *)
(* A text is modelled as the sequence of its lines, each line a string    *)
(* built by concatenation exactly as the f-strings of the source build    *)
(* it.  "\n".join(parts) is then the concatenation of the line sequences  *)
(* of the parts; the empty string is the one-line text <<"">>.            *)
(***************************************************************************)
EXTENDS Integers, Sequences, FiniteSets, TLC

VARIABLES
    configs,            \* NginxConfigGenerator.configs: config_id -> instance
    generated_configs,  \* NginxConfigGenerator.generated_configs: list of documents
    files,              \* the output directory: file name -> content
    call,               \* the method called last, and how many mapping entries it registered
    raised,             \* the exception the last call raised, "None" when it returned
    regMark,            \* len(generated_configs) when self.configs was last assigned to
    pc, data, count     \* main.py: position, the data rows, the loop index

vars == <<configs, generated_configs, files, call, raised, regMark, pc, data, count>>

(***************************************************************************)
(* Bounds of the model.                                                    *)
(***************************************************************************)
\* most entries generated_configs holds in the explored runs
MaxGen == 2
\* most entries of a bulk_register mapping
MaxBulk == 2
\* most rows of the driver's data list
MaxRows == 2

(***************************************************************************)
(* Input values.                                                           *)
(***************************************************************************)
Ids == {"a", "b"}
Jarms == {"tls"}
BodyHashes == {"h1"}
\* custom_data: None, or a text
NoneValue == [kind |-> "none", v |-> ""]
CustomData == {NoneValue, [kind |-> "str", v |-> "ssl_protocols TLSv1.3;"]}

(***************************************************************************)
(* The class hierarchy.                                                    *)
(***************************************************************************)
ConcreteClasses == {"SecureConfig", "SecureConfigExternal", "StaticSiteConfig", "DatabaseProxyConfig"}
\* what a caller may pass as config_class: the classes of config.py and a
\* class outside the hierarchy
Classes == ConcreteClasses \cup {"BaseConfig", "object"}
\* the classes the explored bulk_register mappings draw from: one that
\* registers, the abstract base, and one outside the hierarchy
BulkClasses == {"DatabaseProxyConfig", "BaseConfig", "object"}

Parent(cls) ==
    CASE cls = "SecureConfig" -> "BaseConfig"
      [] cls = "SecureConfigExternal" -> "SecureConfig"
      [] cls = "StaticSiteConfig" -> "BaseConfig"
      [] cls = "DatabaseProxyConfig" -> "BaseConfig"
      [] cls = "BaseConfig" -> "ABC"
      [] OTHER -> "object"

RECURSIVE IsSubclass(_, _)
IsSubclass(cls, base) ==
    IF cls = base THEN TRUE
    ELSE IF cls \in {"object", "ABC"} THEN FALSE
    ELSE IsSubclass(Parent(cls), base)

\* BaseConfig keeps its two abstract members; every class below it defines both
IsAbstract(cls) == cls = "BaseConfig"

(***************************************************************************)
(* Constructors: the attribute assignments of each __init__.               *)
(***************************************************************************)
\* mutant of BaseConfigInit: the flag defaults to true
BaseConfigInit_tokens_on(cls) ==
    [cls |-> cls,
     default_port |-> 80,
     default_ssl_port |-> 443,
     enable_gzip |-> FALSE,
     enable_security_headers |-> FALSE,
     server_tokens |-> TRUE]

BaseConfigInit(cls) ==
    [cls |-> cls,
     default_port |-> 80,
     default_ssl_port |-> 443,
     enable_gzip |-> FALSE,
     enable_security_headers |-> FALSE,
     server_tokens |-> FALSE]

SecureConfigInit(cls) == [BaseConfigInit(cls) EXCEPT !.default_port = 443]

\* mutant of SecureConfigExternalInit: the flag is not set
SecureConfigExternalInit_no_tokens(cls) == SecureConfigInit(cls)

SecureConfigExternalInit(cls) == [SecureConfigInit(cls) EXCEPT !.server_tokens = TRUE]

DatabaseProxyConfigInit(cls) ==
    [BaseConfigInit(cls) EXCEPT !.default_port = 443, !.enable_gzip = FALSE]

\* config_class(): the instance a class constructs
NewInstance(cls) ==
    CASE cls = "SecureConfig" -> SecureConfigInit(cls)
      [] cls = "SecureConfigExternal" -> SecureConfigExternalInit(cls)
      [] cls = "DatabaseProxyConfig" -> DatabaseProxyConfigInit(cls)
      [] OTHER -> BaseConfigInit(cls)

\* whether a class below BaseConfig assigns server_tokens itself
SuppliesServerTokens(cls) == cls = "SecureConfigExternal"

(***************************************************************************)
(* The template methods.                                                   *)
(***************************************************************************)
\* repr of one data row, a list of four strings
ReprRow(row) ==
    "['" \o row[1] \o "', '" \o row[2] \o "', '" \o row[3] \o "', '" \o row[4] \o "']"

\* repr of the data list without its brackets
RECURSIVE ReprRows(_)
ReprRows(rows) ==
    IF rows = <<>> THEN ""
    ELSE IF Len(rows) = 1 THEN ReprRow(rows[1])
    ELSE ReprRow(Head(rows)) \o ", " \o ReprRows(Tail(rows))

\* f"{custom_data}": str() of None, of a text, of the data list
Format(custom_data) ==
    CASE custom_data.kind = "none" -> "None"
      [] custom_data.kind = "list" -> "[" \o ReprRows(custom_data.v) \o "]"
      [] OTHER -> custom_data.v

config_type(self) ==
    CASE self.cls \in {"SecureConfig", "SecureConfigExternal"} -> "404"
      [] self.cls = "StaticSiteConfig" -> "static_site"
      [] self.cls = "DatabaseProxyConfig" -> "database_proxy"

\* the empty sequence stands for None (no part is added)
get_error_config(self) ==
    IF self.cls \in {"SecureConfig", "SecureConfigExternal"}
    THEN <<"error handling">>
    ELSE <<>>

get_server_name(self, config_id) ==
    CASE self.cls \in {"SecureConfig", "SecureConfigExternal"} -> "api-" \o config_id \o ".internal.com"
      [] self.cls = "StaticSiteConfig" -> "site-" \o config_id \o ".internal.com"
      [] self.cls = "DatabaseProxyConfig" -> "db-" \o config_id \o ".internal.com"
      [] OTHER -> config_id \o ".internal.com"

get_server_tokens(self) ==
    IF self.server_tokens THEN "server_tokens on;" ELSE "server_tokens off;"

get_listen_directive(self) == "listen " \o ToString(self.default_port) \o ";"

\* mutant of get_ssl_config: the test reads default_ssl_port
get_ssl_config_ssl_port(self, config_id, custom_data) ==
    IF self.default_ssl_port = 443
    THEN << "    ssl_certificate /etc/ssl/certs/" \o config_id \o ".crt;",
            "    ssl_certificate_key /etc/ssl/private/" \o config_id \o ".key;",
            "    ",
            "    " \o Format(custom_data) >>
    ELSE <<"">>

get_ssl_config(self, config_id, custom_data) ==
    IF self.default_port = 443
    THEN << "    ssl_certificate /etc/ssl/certs/" \o config_id \o ".crt;",
            "    ssl_certificate_key /etc/ssl/private/" \o config_id \o ".key;",
            "    ",
            "    " \o Format(custom_data) >>
    ELSE <<"">>

GzipDirectives ==
    << "    # Gzip compression",
       "    gzip on;",
       "    gzip_types text/css text/javascript application/javascript application/json;" >>

SecurityHeaderDirectives ==
    << "    # Security headers",
       "    add_header X-Frame-Options DENY;",
       "    add_header X-Content-Type-Options nosniff;",
       "    add_header X-XSS-Protection \"1; mode=block\";" >>

get_common_directives(self) ==
    LET directives == (IF self.enable_gzip THEN GzipDirectives ELSE <<>>)
                      \o (IF self.enable_security_headers THEN SecurityHeaderDirectives ELSE <<>>)
    IN  IF directives = <<>> THEN <<"">> ELSE directives

SecureLocations(config_id) ==
    << "    location /api/ {",
       "        proxy_pass http://api_backend_" \o config_id \o ";",
       "        proxy_set_header Host $host;",
       "        proxy_set_header X-Real-IP $remote_addr;",
       "        proxy_set_header X-Forwarded-For $proxy_add_x_forwarded_for;",
       "        proxy_set_header X-Forwarded-Proto $scheme;",
       "        ",
       "        # API specific settings",
       "        proxy_read_timeout 300s;",
       "        proxy_connect_timeout 75s;",
       "    }",
       "    ",
       "    location /health {",
       "        access_log off;",
       "        return 200 \"healthy\\n\";",
       "        add_header Content-Type text/plain;",
       "    }" >>

StaticSiteLocations(config_id) ==
    << "    root /var/www/" \o config_id \o ";",
       "    index index.html index.htm;",
       "    ",
       "    location / {",
       "        try_files $uri $uri/ =404;",
       "    }",
       "    ",
       "    location ~* \\.(css|js|png|jpg|jpeg|gif|ico|svg)$ {",
       "        expires 1y;",
       "        add_header Cache-Control \"public, immutable\";",
       "    }",
       "    ",
       "    location = /favicon.ico {",
       "        log_not_found off;",
       "        access_log off;",
       "    }" >>

DatabaseProxyLocations(config_id) ==
    << "    location / {",
       "        proxy_pass http://db_backend_" \o config_id \o ";",
       "        proxy_set_header Host $host;",
       "        ",
       "        # Database specific settings",
       "        proxy_read_timeout 600s;",
       "        proxy_connect_timeout 10s;",
       "        proxy_send_timeout 600s;",
       "    }" >>

get_location_blocks(self, config_id) ==
    CASE self.cls \in {"SecureConfig", "SecureConfigExternal"} -> SecureLocations(config_id)
      [] self.cls = "StaticSiteConfig" -> StaticSiteLocations(config_id)
      [] self.cls = "DatabaseProxyConfig" -> DatabaseProxyLocations(config_id)

get_server_config(self, config_id, custom_data) ==
    << "", get_server_tokens(self), "        ", "server {",
       "    " \o get_listen_directive(self),
       "    server_name " \o get_server_name(self, config_id) \o ";",
       "    " >>
    \o get_ssl_config(self, config_id, custom_data)
    \o get_common_directives(self)
    \o get_location_blocks(self, config_id)
    \o <<"}">>

\* mutant of BaseGenerate: the document numbers itself by the store's size
BaseGenerate_counter(self, config_id, custom_data) ==
    get_error_config(self)
    \o <<"# config " \o ToString(Len(generated_configs))>>
    \o get_server_config(self, config_id, custom_data)

\* BaseConfig.generate: the document, as its lines
BaseGenerate(self, config_id, custom_data) ==
    get_error_config(self) \o get_server_config(self, config_id, custom_data)

(***************************************************************************)
(* NginxConfigGenerator.  Each method is an operator from the fields it    *)
(* reads to the fields it leaves behind and the exception it raises        *)
(* ("None" when it returns normally).                                      *)
(***************************************************************************)
EmptyMap == [k \in {} |-> k]

\* mutant of register_config: an id already bound keeps its binding
register_config_keep_first(cfgs, config_id, config_class) ==
    IF ~IsSubclass(config_class, "BaseConfig") \/ IsAbstract(config_class)
    THEN [configs |-> cfgs, raised |-> "TypeError"]
    ELSE [configs |-> [k \in DOMAIN cfgs \cup {config_id} |->
                          IF k \in DOMAIN cfgs THEN cfgs[k] ELSE NewInstance(config_class)],
          raised |-> "None"]

register_config(cfgs, config_id, config_class) ==
    IF ~IsSubclass(config_class, "BaseConfig")
    THEN [configs |-> cfgs, raised |-> "TypeError"]
    ELSE IF IsAbstract(config_class)
    THEN [configs |-> cfgs, raised |-> "TypeError"]
    ELSE [configs |-> [k \in DOMAIN cfgs \cup {config_id} |->
                          IF k = config_id THEN NewInstance(config_class) ELSE cfgs[k]],
          raised |-> "None"]

\* config_mapping is the sequence of the mapping's items, in mapping order;
\* applied counts the entries registered so far
RECURSIVE bulk_register_from(_, _, _)
bulk_register_from(cfgs, config_mapping, applied) ==
    IF config_mapping = <<>>
    THEN [configs |-> cfgs, raised |-> "None", applied |-> applied]
    ELSE LET r == register_config(cfgs, Head(config_mapping)[1], Head(config_mapping)[2])
         IN  IF r.raised # "None"
             THEN [configs |-> r.configs, raised |-> r.raised, applied |-> applied]
             ELSE bulk_register_from(r.configs, Tail(config_mapping), applied + 1)

\* mutant of bulk_register: every class is validated before any is registered
bulk_register_atomic(cfgs, config_mapping) ==
    IF \E i \in 1..Len(config_mapping) :
          ~IsSubclass(config_mapping[i][2], "BaseConfig") \/ IsAbstract(config_mapping[i][2])
    THEN [configs |-> cfgs, raised |-> "TypeError", applied |-> 0]
    ELSE bulk_register_from(cfgs, config_mapping, 0)

bulk_register(cfgs, config_mapping) == bulk_register_from(cfgs, config_mapping, 0)

\* mutant of generate: an unregistered id gets an empty document instead of an error
generate_no_check(cfgs, gen, config_id, jarm, body_hash, custom_data) ==
    LET config == [id |-> config_id,
                   type |-> IF config_id \in DOMAIN cfgs
                            THEN config_type(cfgs[config_id]) ELSE "unknown",
                   content |-> IF config_id \in DOMAIN cfgs
                               THEN BaseGenerate(cfgs[config_id], config_id, custom_data)
                               ELSE <<"">>,
                   jarm |-> jarm,
                   body_hash |-> body_hash,
                   extra_data |-> custom_data]
    IN  [generated_configs |-> Append(gen, config), raised |-> "None"]

\* mutant of generate: a call whose key is already stored is a hit and stores nothing
generate_skip_stored(cfgs, gen, config_id, jarm, body_hash, custom_data) ==
    IF config_id \notin DOMAIN cfgs
    THEN [generated_configs |-> gen, raised |-> "ValueError"]
    ELSE IF \E i \in 1..Len(gen) :
               <<gen[i].id, gen[i].jarm, gen[i].body_hash>> = <<config_id, jarm, body_hash>>
    THEN [generated_configs |-> gen, raised |-> "None"]
    ELSE [generated_configs |->
              Append(gen, [id |-> config_id,
                           type |-> config_type(cfgs[config_id]),
                           content |-> BaseGenerate(cfgs[config_id], config_id, custom_data),
                           jarm |-> jarm,
                           body_hash |-> body_hash,
                           extra_data |-> custom_data]),
          raised |-> "None"]

\* mutant of generate: a document whose key is already stored replaces the stored one
generate_replace(cfgs, gen, config_id, jarm, body_hash, custom_data) ==
    IF config_id \notin DOMAIN cfgs
    THEN [generated_configs |-> gen, raised |-> "ValueError"]
    ELSE LET config == [id |-> config_id,
                        type |-> config_type(cfgs[config_id]),
                        content |-> BaseGenerate(cfgs[config_id], config_id, custom_data),
                        jarm |-> jarm,
                        body_hash |-> body_hash,
                        extra_data |-> custom_data]
             same == {i \in 1..Len(gen) :
                        <<gen[i].id, gen[i].jarm, gen[i].body_hash>>
                          = <<config_id, jarm, body_hash>>}
         IN  IF same = {}
             THEN [generated_configs |-> Append(gen, config), raised |-> "None"]
             ELSE [generated_configs |-> [i \in 1..Len(gen) |->
                                            IF i \in same THEN config ELSE gen[i]],
                   raised |-> "None"]

generate(cfgs, gen, config_id, jarm, body_hash, custom_data) ==
    IF config_id \notin DOMAIN cfgs
    THEN [generated_configs |-> gen, raised |-> "ValueError"]
    ELSE LET config == [id |-> config_id,
                        type |-> config_type(cfgs[config_id]),
                        content |-> BaseGenerate(cfgs[config_id], config_id, custom_data),
                        jarm |-> jarm,
                        body_hash |-> body_hash,
                        extra_data |-> custom_data]
         IN  [generated_configs |-> Append(gen, config), raised |-> "None"]

FileName(config) ==
    "BH:" \o config.id \o "_JARM:" \o config.jarm \o "_HH:" \o config.body_hash
          \o "_" \o config.type \o ".conf"

\* open(filepath, 'w') and write: the file holds the content last written
WriteFile(fs, name, content) ==
    [n \in DOMAIN fs \cup {name} |-> IF n = name THEN content ELSE fs[n]]

RECURSIVE save_configs(_, _)
save_configs(fs, gen) ==
    IF gen = <<>> THEN fs
    ELSE save_configs(WriteFile(fs, FileName(Head(gen)), Head(gen).content), Tail(gen))

(***************************************************************************)
(* The generator driven by an arbitrary caller: one action per method.     *)
(***************************************************************************)
\* the items of a mapping: distinct keys, in some order
RECURSIVE MappingsOfLen(_)
MappingsOfLen(n) ==
    IF n = 0 THEN {<<>>}
    ELSE {Append(m, <<id, cls>>) :
            m \in MappingsOfLen(n - 1), id \in Ids, cls \in BulkClasses}

DistinctKeys(m) == \A i, j \in 1..Len(m) : i # j => m[i][1] # m[j][1]

Mappings == {m \in UNION {MappingsOfLen(n) : n \in 0..MaxBulk} : DistinctKeys(m)}

Init ==
    /\ configs = EmptyMap
    /\ generated_configs = <<>>
    /\ files = EmptyMap
    /\ call = [op |-> "__init__", applied |-> 0]
    /\ raised = "None"
    /\ regMark = 0
    /\ pc = "api"
    /\ data = <<>>
    /\ count = 0

RegisterConfig(config_id, config_class) ==
    LET r == register_config(configs, config_id, config_class)
    IN  /\ pc = "api"
        /\ configs' = r.configs
        /\ raised' = r.raised
        /\ call' = [op |-> "register_config", applied |-> IF r.raised = "None" THEN 1 ELSE 0]
        /\ regMark' = IF r.raised = "None" THEN Len(generated_configs) ELSE regMark
        /\ UNCHANGED <<generated_configs, files, pc, data, count>>

BulkRegister(config_mapping) ==
    LET r == bulk_register(configs, config_mapping)
    IN  /\ pc = "api"
        /\ configs' = r.configs
        /\ raised' = r.raised
        /\ call' = [op |-> "bulk_register", applied |-> r.applied]
        /\ regMark' = IF r.applied > 0 THEN Len(generated_configs) ELSE regMark
        /\ UNCHANGED <<generated_configs, files, pc, data, count>>

Generate(config_id, jarm, body_hash, custom_data) ==
    LET r == generate(configs, generated_configs, config_id, jarm, body_hash, custom_data)
    IN  /\ pc = "api"
        /\ Len(generated_configs) < MaxGen
        /\ generated_configs' = r.generated_configs
        /\ raised' = r.raised
        /\ call' = [op |-> "generate", applied |-> 0]
        /\ UNCHANGED <<configs, files, regMark, pc, data, count>>

SaveConfigs ==
    /\ pc = "api"
    /\ files' = save_configs(files, generated_configs)
    /\ raised' = "None"
    /\ call' = [op |-> "save_configs", applied |-> 0]
    /\ UNCHANGED <<configs, generated_configs, regMark, pc, data, count>>

Next ==
    \/ \E config_id \in Ids, config_class \in Classes : RegisterConfig(config_id, config_class)
    \/ \E config_mapping \in Mappings : BulkRegister(config_mapping)
    \/ \E config_id \in Ids, jarm \in Jarms, body_hash \in BodyHashes, custom_data \in CustomData :
          Generate(config_id, jarm, body_hash, custom_data)
    \/ SaveConfigs

Spec == Init /\ [][Next]_vars

(***************************************************************************)
(* The driver script main.py: bulk_register, one generate per data row     *)
(* inside try/except, then save_configs.                                   *)
(***************************************************************************)
config_mapping ==
    << <<"25637482_-1002489980", "SecureConfig">>,
       <<"647929283_-1692967738", "StaticSiteConfig">>,
       <<"25637482_1982579955", "DatabaseProxyConfig">> >>

HeaderText ==
    "HTTP/1.1 404 Not Found, Server: nginx, Date: , Content-Type: text/html, Content-Length: 548, Connection: keep-alive"

\* the rows the explored data lists draw from; row[0]_row[2] is registered
\* for three of them and unregistered for the other three
Rows ==
    {<<a, "some html", b, HeaderText>> :
        a \in {"25637482", "647929283"},
        b \in {"-1002489980", "-1692967738", "1982579955"}}

RECURSIVE DataListsOfLen(_)
DataListsOfLen(n) ==
    IF n = 0 THEN {<<>>}
    ELSE {Append(d, row) : d \in DataListsOfLen(n - 1), row \in Rows}

DataLists == UNION {DataListsOfLen(n) : n \in 0..MaxRows}

\* f"{data[count][0]}_{data[count][2]}"
RowId(row) == row[1] \o "_" \o row[3]

MainInit ==
    /\ configs = EmptyMap
    /\ generated_configs = <<>>
    /\ files = EmptyMap
    /\ call = [op |-> "__init__", applied |-> 0]
    /\ raised = "None"
    /\ regMark = 0
    /\ pc = "bulk_register"
    /\ data \in DataLists
    /\ count = 0

MainBulkRegister ==
    LET r == bulk_register(configs, config_mapping)
    IN  /\ pc = "bulk_register"
        /\ configs' = r.configs
        /\ raised' = r.raised
        /\ call' = [op |-> "bulk_register", applied |-> r.applied]
        /\ regMark' = IF r.applied > 0 THEN Len(generated_configs) ELSE regMark
        /\ pc' = IF r.raised = "None" THEN "loop" ELSE "crashed"
        /\ UNCHANGED <<generated_configs, files, data, count>>

\* mutant of MainGenerate: no try/except, the exception ends the script
MainGenerate_no_try ==
    LET row == data[count + 1]
        r == generate(configs, generated_configs, RowId(row), "tls", row[3],
                      [kind |-> "list", v |-> data])
    IN  /\ pc = "loop"
        /\ count < Len(data)
        /\ generated_configs' = r.generated_configs
        /\ raised' = r.raised
        /\ call' = [op |-> "generate", applied |-> 0]
        /\ count' = IF r.raised = "None" THEN count + 1 ELSE count
        /\ pc' = IF r.raised = "None" THEN "loop" ELSE "crashed"
        /\ UNCHANGED <<configs, files, regMark, data>>

\* one iteration of the for loop; the bare except catches whatever generate
\* raises (raised records it) and the loop goes on
MainGenerate ==
    LET row == data[count + 1]
        r == generate(configs, generated_configs, RowId(row), "tls", row[3],
                      [kind |-> "list", v |-> data])
    IN  /\ pc = "loop"
        /\ count < Len(data)
        /\ generated_configs' = r.generated_configs
        /\ raised' = r.raised
        /\ call' = [op |-> "generate", applied |-> 0]
        /\ count' = count + 1
        /\ pc' = "loop"
        /\ UNCHANGED <<configs, files, regMark, data>>

MainSaveConfigs ==
    /\ pc = "loop"
    /\ count = Len(data)
    /\ files' = save_configs(files, generated_configs)
    /\ raised' = "None"
    /\ call' = [op |-> "save_configs", applied |-> 0]
    /\ pc' = "done"
    /\ UNCHANGED <<configs, generated_configs, regMark, data, count>>

MainNext == MainBulkRegister \/ MainGenerate \/ MainSaveConfigs

\* the script runs to its end: no step of it waits on anything
MainSpec == MainInit /\ [][MainNext]_vars /\ WF_vars(MainNext)

(***************************************************************************)
(* Helpers of the properties.                                              *)
(***************************************************************************)
Last(seq) == seq[Len(seq)]

Key(config) == <<config.id, config.jarm, config.body_hash>>

TokenLines(doc) == {k \in 1..Len(doc) : doc[k] \in {"server_tokens on;", "server_tokens off;"}}

ServerBlockStart(doc) == {k \in 1..Len(doc) : doc[k] = "server {"}

\* the TLS block for config_id, followed by the formatted custom_data
HasTlsBlock(doc, config_id, custom_data) ==
    \E k \in 1..(Len(doc) - 3) :
        /\ doc[k] = "    ssl_certificate /etc/ssl/certs/" \o config_id \o ".crt;"
        /\ doc[k + 1] = "    ssl_certificate_key /etc/ssl/private/" \o config_id \o ".key;"
        /\ doc[k + 3] = "    " \o Format(custom_data)

HasCertificateLine(doc, config_id) ==
    \E k \in 1..Len(doc) :
        doc[k] \in {"    ssl_certificate /etc/ssl/certs/" \o config_id \o ".crt;",
                    "    ssl_certificate_key /etc/ssl/private/" \o config_id \o ".key;"}

\* a class register_config turns down
Rejected(cls) == ~IsSubclass(cls, "BaseConfig") \/ IsAbstract(cls)

\* the first rejected entry of a mapping, Len + 1 when there is none
FirstRejected(m) ==
    IF \E i \in 1..Len(m) : Rejected(m[i][2])
    THEN CHOOSE i \in 1..Len(m) :
            Rejected(m[i][2]) /\ \A j \in 1..(i - 1) : ~Rejected(m[j][2])
    ELSE Len(m) + 1

GenerateArgs == Ids \X Jarms \X BodyHashes \X CustomData

(***************************************************************************)
(* C1: generate with a config_id that is not registered raises ValueError  *)
(* and changes neither configs nor generated_configs.                      *)
(***************************************************************************)
C1_UnknownIdNoMutation ==
    [][call'.op = "generate" => \A a \in GenerateArgs :
          (Generate(a[1], a[2], a[3], a[4]) /\ a[1] \notin DOMAIN configs)
          => /\ raised' = "ValueError"
             /\ configs' = configs
             /\ generated_configs' = generated_configs]_vars

\* an unknown id was turned down while the registry and the store held entries
C1_Witness ==
    /\ call.op = "generate"
    /\ raised = "ValueError"
    /\ DOMAIN configs # {}
    /\ generated_configs # <<>>

(***************************************************************************)
(* C2: registering an id again overwrites its binding: the registry then   *)
(* holds one binding for the id, an instance of the class given last, no   *)
(* error is raised, the other bindings are unchanged, and generate         *)
(* produces the document and type label of the class bound at the time.    *)
(***************************************************************************)
C2_DuplicateOverwrites ==
    [][/\ call'.op = "register_config" => \A id \in Ids, cls \in ConcreteClasses :
            RegisterConfig(id, cls)
            => /\ raised' = "None"
               /\ DOMAIN configs' = DOMAIN configs \cup {id}
               /\ configs'[id].cls = cls
               /\ \A k \in DOMAIN configs \ {id} : configs'[k] = configs[k]
       /\ call'.op = "generate" => \A a \in GenerateArgs :
            (Generate(a[1], a[2], a[3], a[4]) /\ a[1] \in DOMAIN configs)
            => /\ Len(generated_configs') = Len(generated_configs) + 1
               /\ Last(generated_configs').type = config_type(NewInstance(configs[a[1]].cls))
               /\ Last(generated_configs').content
                     = BaseGenerate(NewInstance(configs[a[1]].cls), a[1], a[4])]_vars

\* an id was generated under one class, registered again with another, and
\* generated again: the last document carries the second class's label
C2_Witness ==
    /\ call.op = "generate"
    /\ raised = "None"
    /\ \E i \in 1..(Len(generated_configs) - 1) :
          /\ generated_configs[i].id = Last(generated_configs).id
          /\ generated_configs[i].type # Last(generated_configs).type

(***************************************************************************)
(* C3: two generate calls with equal arguments and no registration in      *)
(* between store equal content and equal type labels.                      *)
(***************************************************************************)
C3_Deterministic ==
    \A i, j \in (regMark + 1)..Len(generated_configs) :
        (/\ generated_configs[i].id = generated_configs[j].id
         /\ generated_configs[i].jarm = generated_configs[j].jarm
         /\ generated_configs[i].body_hash = generated_configs[j].body_hash
         /\ generated_configs[i].extra_data = generated_configs[j].extra_data)
        => /\ generated_configs[i].content = generated_configs[j].content
           /\ generated_configs[i].type = generated_configs[j].type

\* two calls with equal arguments since the last registration, with a
\* save_configs between them
C3_Witness ==
    /\ call.op = "generate"
    /\ raised = "None"
    /\ DOMAIN files # {}
    /\ \E i, j \in (regMark + 1)..Len(generated_configs) :
          /\ i < j
          /\ Key(generated_configs[i]) = Key(generated_configs[j])
          /\ generated_configs[i].extra_data = generated_configs[j].extra_data

C5_StoredDocumentsImmutable ==
    [][/\ Len(generated_configs') >= Len(generated_configs)
       /\ \A i \in 1..Len(generated_configs) :
            generated_configs'[i] = generated_configs[i]]_vars

\* an id was registered again with another class after its document was
\* stored, and the output was saved: the stored label is still the old one
C5_Witness ==
    /\ DOMAIN files # {}
    /\ \E i \in 1..Len(generated_configs) :
          /\ generated_configs[i].id \in DOMAIN configs
          /\ generated_configs[i].type # config_type(configs[generated_configs[i].id])

C7_MissingFlagFails ==
    [][call'.op = "generate" => \A a \in GenerateArgs :
          (/\ Generate(a[1], a[2], a[3], a[4])
           /\ a[1] \in DOMAIN configs
           /\ ~SuppliesServerTokens(configs[a[1]].cls))
          => /\ raised' = "MissingServerTokensFlag"
             /\ generated_configs' = generated_configs]_vars

(***************************************************************************)
(* C7, amended: the flag defaults to false.  generate for a variant whose  *)
(* class never set it succeeds, emits "server_tokens off;" and stores the  *)
(* document.                                                               *)
(***************************************************************************)
C7_FlagDefaultsOff ==
    [][call'.op = "generate" => \A a \in GenerateArgs :
          (/\ Generate(a[1], a[2], a[3], a[4])
           /\ a[1] \in DOMAIN configs
           /\ ~SuppliesServerTokens(configs[a[1]].cls))
          => /\ raised' = "None"
             /\ Len(generated_configs') = Len(generated_configs) + 1
             /\ Last(generated_configs').id = a[1]
             /\ \E k \in 1..Len(Last(generated_configs').content) :
                   Last(generated_configs').content[k] = "server_tokens off;"
             /\ \A k \in 1..Len(Last(generated_configs').content) :
                   Last(generated_configs').content[k] # "server_tokens on;"]_vars

\* the last call generated a document for a class that never set the flag
C7_Witness ==
    /\ call.op = "generate"
    /\ raised = "None"
    /\ generated_configs # <<>>
    /\ ~SuppliesServerTokens(configs[Last(generated_configs).id].cls)
    /\ \E k \in 1..Len(Last(generated_configs).content) :
          Last(generated_configs).content[k] = "server_tokens off;"

(***************************************************************************)
(* C8: in main.py every row is attempted in order, a row whose generate    *)
(* fails does not stop the later rows, the stored documents at the end are *)
(* those of the rows with registered ids in row order, the registry is the *)
(* one bulk_register built, and save_configs is called exactly once, after *)
(* the last row, in every run.                                             *)
(***************************************************************************)
RegisteredClass(id) ==
    LET i == CHOOSE i \in 1..Len(config_mapping) : config_mapping[i][1] = id
    IN  config_mapping[i][2]

MainRegistry ==
    [id \in {config_mapping[i][1] : i \in 1..Len(config_mapping)} |->
        NewInstance(RegisteredClass(id))]

ExpectedDocument(row, rows) ==
    [id |-> RowId(row),
     type |-> config_type(MainRegistry[RowId(row)]),
     content |-> BaseGenerate(MainRegistry[RowId(row)], RowId(row), [kind |-> "list", v |-> rows]),
     jarm |-> "tls",
     body_hash |-> row[3],
     extra_data |-> [kind |-> "list", v |-> rows]]

RECURSIVE ExpectedDocuments(_, _)
ExpectedDocuments(rest, rows) ==
    IF rest = <<>> THEN <<>>
    ELSE IF RowId(Head(rest)) \in DOMAIN MainRegistry
    THEN <<ExpectedDocument(Head(rest), rows)>> \o ExpectedDocuments(Tail(rest), rows)
    ELSE ExpectedDocuments(Tail(rest), rows)

C8_FailedRowIsLocal ==
    /\ [][call'.op = "generate"
            => /\ count' = count + 1
               /\ pc' = "loop"
               /\ configs' = configs
               /\ RowId(data[count']) \notin DOMAIN configs
                    => raised' = "ValueError" /\ generated_configs' = generated_configs
               /\ RowId(data[count']) \in DOMAIN configs
                    => /\ raised' = "None"
                       /\ Len(generated_configs') = Len(generated_configs) + 1
                       /\ Last(generated_configs').id = RowId(data[count'])]_vars
    /\ [][call'.op = "save_configs" => pc = "loop" /\ count = Len(data) /\ pc' = "done"]_vars
    /\ [][pc # "done"]_vars
    /\ [](pc = "done"
            => /\ call.op = "save_configs"
               /\ count = Len(data)
               /\ generated_configs = ExpectedDocuments(data, data)
               /\ configs = MainRegistry)
    /\ <>(pc = "done")

\* the script ended after a row with an unregistered id followed by a row
\* with a registered one
C8_Witness ==
    /\ pc = "done"
    /\ Len(data) = 2
    /\ RowId(data[1]) \notin DOMAIN configs
    /\ RowId(data[2]) \in DOMAIN configs
    /\ Len(generated_configs) = 1
    /\ DOMAIN files # {}

(***************************************************************************)
(* C9: register_config raises TypeError and leaves the registry unchanged  *)
(* for a class that is no subclass of BaseConfig; bulk_register registers  *)
(* the entries before the first rejected one, in mapping order, raises at  *)
(* the rejected one, registers none after it, and leaves generated_configs *)
(* unchanged.                                                              *)
(***************************************************************************)
C9_BulkRegisterNotAtomic ==
    /\ [](/\ \A id \in Ids, cls \in Classes :
               ~IsSubclass(cls, "BaseConfig")
               => register_config(configs, id, cls) = [configs |-> configs, raised |-> "TypeError"]
           /\ \A m \in Mappings :
               LET r == bulk_register(configs, m)
                   k == FirstRejected(m)
                   before == {m[i][1] : i \in 1..(k - 1)}
               IN  /\ r.raised = IF k <= Len(m) THEN "TypeError" ELSE "None"
                   /\ r.applied = k - 1
                   /\ DOMAIN r.configs = DOMAIN configs \cup before
                   /\ \A i \in 1..(k - 1) : r.configs[m[i][1]] = NewInstance(m[i][2])
                   /\ \A other \in DOMAIN configs \ before : r.configs[other] = configs[other])
    /\ [][call'.op = "bulk_register"
            => /\ generated_configs' = generated_configs
               /\ DOMAIN configs \subseteq DOMAIN configs']_vars

\* a bulk_register call raised after it had registered an entry, replacing
\* the binding a stored document was generated under
C9_Witness ==
    /\ call.op = "bulk_register"
    /\ raised = "TypeError"
    /\ call.applied >= 1
    /\ \E i \in 1..Len(generated_configs) :
          /\ generated_configs[i].id \in DOMAIN configs
          /\ generated_configs[i].type # config_type(configs[generated_configs[i].id])

(***************************************************************************)
(* C10: a generated document holds the ssl_certificate and                 *)
(* ssl_certificate_key lines of its config_id, followed by custom_data,    *)
(* exactly when the instance's default_port is 443, which is exactly for   *)
(* SecureConfig, SecureConfigExternal and DatabaseProxyConfig; for any     *)
(* other instance the content is the same for every custom_data.           *)
(***************************************************************************)
C10_TlsBlockOnlyOn443 ==
    [][call'.op = "generate" => \A a \in GenerateArgs :
          (Generate(a[1], a[2], a[3], a[4]) /\ a[1] \in DOMAIN configs)
          => LET doc == Last(generated_configs').content
                 self == configs[a[1]]
             IN  /\ HasTlsBlock(doc, a[1], a[4]) <=> (self.default_port = 443)
                 /\ HasCertificateLine(doc, a[1]) <=> (self.default_port = 443)
                 /\ (self.default_port = 443)
                      <=> (self.cls \in {"SecureConfig", "SecureConfigExternal", "DatabaseProxyConfig"})
                 /\ self.default_port # 443
                      => \A other \in CustomData : BaseGenerate(self, a[1], other) = doc]_vars

\* a StaticSiteConfig document generated with a custom_data text, and a
\* document of a port-443 class, are stored
C10_Witness ==
    /\ \E i \in 1..Len(generated_configs) :
          /\ generated_configs[i].type = "static_site"
          /\ generated_configs[i].extra_data # NoneValue
          /\ ~HasCertificateLine(generated_configs[i].content, generated_configs[i].id)
    /\ \E i \in 1..Len(generated_configs) :
          /\ generated_configs[i].type = "database_proxy"
          /\ HasTlsBlock(generated_configs[i].content, generated_configs[i].id,
                         generated_configs[i].extra_data)

====
